---- MODULE Spec2Model ----
(***************************************************************************)
(* TimeCharts (src/src/index.js): the Barchart and Timeline renderers as a *)
(* state machine.  One chart instance lives in one container element.  A   *)
(* render (drawVertical, drawHorizontal, draw) is one atomic step: the     *)
(* library is single threaded and every handler runs to completion.        *)
(*                                                                         *)
(* Numbers are JavaScript numbers modelled as exact extended rationals: a  *)
(* pair <<n, d>> with d > 0 in lowest terms, NaN = <<0, 0>>, +Infinity =   *)
(* <<1, 0>>, -Infinity = <<-1, 0>>.  Floating point rounding is not        *)
(* modelled.  An optional field of the caller's data (value, title, label) *)
(* is <<>> when it is missing (undefined) and <<v>> when it is present.    *)
(***************************************************************************)
EXTENDS Integers, Sequences, FiniteSets, TLC

VARIABLES
    chart,       \* which class the caller constructs: "bar" or "timeline"
    pc,          \* "new" before the constructor ran, then "ready", "aborted" or "threw"
    args,        \* the constructor's params argument: <<>> when omitted, else <<params>>
    cfg,         \* the instance's configuration fields (this.max, this.scale, ...)
    data,        \* this.data
    container,   \* what the selector addresses: [found, w, h, children]
    svg,         \* this.svg: the vector tree of the last completed render
    tooltip,     \* this.tooltip: <<>> (undefined) or <<element>>
    drag,        \* the closure of the last render's drag handlers
    listeners,   \* listeners registered outside the tree: [resize, mouseup]
    console,     \* number of console.error calls
    thrown,      \* whether the last operation ended by throwing
    renders,     \* number of completed renders
    call         \* the last call of a formatting method: [fn, minutes, text]

vars == <<chart, pc, args, cfg, data, container, svg, tooltip, drag, listeners,
          console, thrown, renders, call>>

-----------------------------------------------------------------------------
(* JavaScript numbers *)

Abs(i) == IF i < 0 THEN 0 - i ELSE i

Sign(i) == IF i < 0 THEN 0 - 1 ELSE IF i > 0 THEN 1 ELSE 0

RECURSIVE Gcd(_, _)
Gcd(a, b) == IF b = 0 THEN a ELSE Gcd(b, a % b)

\* the number n / d for d /= 0, in lowest terms
Q(n, d) ==
    LET g == Gcd(Abs(n), Abs(d))
    IN  <<Sign(d) * (n \div g) , Abs(d) \div g>>

N(i) == <<i, 1>>

NaN == <<0, 0>>

Infinity == <<1, 0>>

IsNaN(x) == x = NaN

IsFinite(x) == x[2] > 0

Neg(x) == <<0 - x[1], x[2]>>

Add(x, y) ==
    IF IsNaN(x) \/ IsNaN(y) THEN NaN
    ELSE IF IsFinite(x) /\ IsFinite(y) THEN Q(x[1] * y[2] + y[1] * x[2], x[2] * y[2])
    ELSE IF IsFinite(x) THEN y
    ELSE IF IsFinite(y) THEN x
    ELSE IF x = y THEN x ELSE NaN

Sub(x, y) == Add(x, Neg(y))

Mul(x, y) ==
    IF IsNaN(x) \/ IsNaN(y) THEN NaN
    ELSE IF IsFinite(x) /\ IsFinite(y) THEN Q(x[1] * y[1], x[2] * y[2])
    ELSE IF x[1] = 0 \/ y[1] = 0 THEN NaN
    ELSE <<Sign(x[1]) * Sign(y[1]), 0>>

\* x / y; a zero divisor is +0
Div(x, y) ==
    IF IsNaN(x) \/ IsNaN(y) THEN NaN
    ELSE IF IsFinite(y) /\ y[1] /= 0
         THEN (IF IsFinite(x) THEN Q(x[1] * y[2], x[2] * y[1])
               ELSE <<x[1] * Sign(y[1]), 0>>)
    ELSE IF IsFinite(y)
         THEN (IF x[1] = 0 THEN NaN ELSE <<Sign(x[1]), 0>>)
    ELSE IF IsFinite(x) THEN N(0) ELSE NaN

\* x < y; false when either is NaN
Lt(x, y) ==
    /\ ~IsNaN(x)
    /\ ~IsNaN(y)
    /\ IF IsFinite(x) /\ IsFinite(y) THEN x[1] * y[2] < y[1] * x[2]
       ELSE IF IsFinite(x) THEN y[1] > 0
       ELSE IF IsFinite(y) THEN x[1] < 0
       ELSE x[1] < y[1]

Gt(x, y) == Lt(y, x)

Le(x, y) == ~IsNaN(x) /\ ~IsNaN(y) /\ ~Lt(y, x)

\* Math.max and Math.min of two numbers
MathMax(x, y) == IF IsNaN(x) \/ IsNaN(y) THEN NaN ELSE IF Lt(x, y) THEN y ELSE x

MathMin(x, y) == IF IsNaN(x) \/ IsNaN(y) THEN NaN ELSE IF Lt(y, x) THEN y ELSE x

\* Math.floor
MathFloor(x) == IF IsFinite(x) THEN N(x[1] \div x[2]) ELSE x

\* v || 0 for an optional number: undefined, NaN and 0 all give 0
OrZero(v) == IF v = <<>> \/ IsNaN(v[1]) THEN N(0) ELSE v[1]

\* v || "" for an optional string
OrEmpty(s) == IF s = <<>> THEN "" ELSE s[1]

\* p + c.value as the reduce computes it: undefined converts to NaN
PlusValue(p, v) == IF v = <<>> THEN NaN ELSE Add(p, v[1])

-----------------------------------------------------------------------------
(* Arc/pill geometry: the parts of a capsule that a fill covers *)

\* the two arcsine arguments of createTopArc (lines 111-112)
CreateTopArc(radiusY, heightDelta, heightOld) ==
    [fn |-> "asin", old |-> heightOld, delta |-> heightDelta,
     argOld |-> Div(Sub(radiusY, heightOld), radiusY),
     argNew |-> Div(Sub(radiusY, Add(heightOld, heightDelta)), radiusY)]

\* the two arcsine arguments of createRightArc (lines 138-139)
CreateRightArc(radiusX, widthDelta, widthOld) ==
    [fn |-> "asin", old |-> widthOld, delta |-> widthDelta,
     argOld |-> Div(Sub(radiusX, widthOld), radiusX),
     argNew |-> Div(Sub(radiusX, Add(widthOld, widthDelta)), radiusX)]

\* the two arccosine arguments of createBottomArc (lines 165-166)
CreateBottomArc(radiusY, heightDelta, heightOld) ==
    [fn |-> "acos", old |-> heightOld, delta |-> heightDelta,
     argOld |-> Div(Sub(radiusY, heightOld), radiusY),
     argNew |-> Div(Sub(radiusY, Add(heightOld, heightDelta)), radiusY)]

\* the two arccosine arguments of createLeftArc (lines 192-193)
CreateLeftArc(radiusX, widthDelta, widthOld) ==
    [fn |-> "acos", old |-> widthOld, delta |-> widthDelta,
     argOld |-> Div(Sub(radiusX, widthOld), radiusX),
     argNew |-> Div(Sub(radiusX, Add(widthOld, widthDelta)), radiusX)]

\* a portion drawn as a plain rectangle, without caps
CreateVerticalRectangle(radiusY, heightDelta, heightOld, heightMax) ==
    [startArc |-> <<>>, startArcExtent |-> N(0),
     middle |-> <<heightOld, heightDelta>>, middleExtent |-> heightDelta,
     endArc |-> <<>>, endArcExtent |-> N(0)]

\* createVerticalBar (lines 218-254): the path of one bar portion as its three
\* pieces.  A piece that the code leaves as "" is <<>>; middle is
\* <<start offset, extent>>.
CreateVerticalBar(radiusY, heightDelta, heightOld, heightMax) ==
    LET Path(bottomArcHeight, topArcHeight, middleHeight) ==
            [startArc |-> IF Lt(heightOld, radiusY)
                          THEN <<CreateBottomArc(radiusY, bottomArcHeight, heightOld)>>
                          ELSE <<>>,
             startArcExtent |-> bottomArcHeight,
             middle |-> IF Gt(middleHeight, N(0))
                        THEN <<Add(heightOld, bottomArcHeight), middleHeight>>
                        ELSE <<>>,
             middleExtent |-> middleHeight,
             endArc |-> IF Gt(Add(heightOld, heightDelta), Sub(heightMax, radiusY))
                        THEN <<CreateTopArc(radiusY, topArcHeight,
                                   MathMax(N(0), Sub(heightOld, Sub(heightMax, radiusY))))>>
                        ELSE <<>>,
             endArcExtent |-> topArcHeight]
        Arcs(bottomArcHeight, topArcHeight) ==
            Path(bottomArcHeight, topArcHeight,
                 Sub(Sub(heightDelta, bottomArcHeight), topArcHeight))
    IN  Arcs(IF Lt(heightOld, radiusY)
             THEN MathMin(heightDelta, Sub(radiusY, heightOld))
             ELSE N(0),
             IF Gt(Add(heightOld, heightDelta), Sub(heightMax, radiusY))
             THEN MathMin(heightDelta,
                          Sub(Add(heightOld, heightDelta), Sub(heightMax, radiusY)))
             ELSE N(0))

\* createHorizontalBar (lines 266-302): the transpose of createVerticalBar
CreateHorizontalBar(radiusX, widthDelta, widthOld, widthMax) ==
    LET Path(leftArcWidth, rightArcWidth, middleWidth) ==
            [startArc |-> IF Lt(widthOld, radiusX)
                          THEN <<CreateLeftArc(radiusX, leftArcWidth, widthOld)>>
                          ELSE <<>>,
             startArcExtent |-> leftArcWidth,
             middle |-> IF Gt(middleWidth, N(0))
                        THEN <<Add(widthOld, leftArcWidth), middleWidth>>
                        ELSE <<>>,
             middleExtent |-> middleWidth,
             endArc |-> IF Gt(Add(widthOld, widthDelta), Sub(widthMax, radiusX))
                        THEN <<CreateRightArc(radiusX, rightArcWidth,
                                   MathMax(N(0), Sub(widthOld, Sub(widthMax, radiusX))))>>
                        ELSE <<>>,
             endArcExtent |-> rightArcWidth]
        Arcs(leftArcWidth, rightArcWidth) ==
            Path(leftArcWidth, rightArcWidth,
                 Sub(Sub(widthDelta, leftArcWidth), rightArcWidth))
    IN  Arcs(IF Lt(widthOld, radiusX)
             THEN MathMin(widthDelta, Sub(radiusX, widthOld))
             ELSE N(0),
             IF Gt(Add(widthOld, widthDelta), Sub(widthMax, radiusX))
             THEN MathMin(widthDelta,
                          Sub(Add(widthOld, widthDelta), Sub(widthMax, radiusX)))
             ELSE N(0))

-----------------------------------------------------------------------------
(* Colour/grouping resolver: valueMap is a plain object, modelled as the    *)
(* sequence of its own entries [key, color, value] in insertion order       *)

\* property names every plain object inherits from Object.prototype; the
\* titles of the model contain this one
ProtoKeys == {"constructor"}

\* what reading an inherited property as a colour yields once it is written
\* into the fill attribute
InheritedColor == "function Object() { [native code] }"

\* what reading a property that does not exist yields as a fill attribute
UndefinedColor == "undefined"

\* {}
EmptyMap == <<>>

OwnKeys(valueMap) == [k \in 1..Len(valueMap) |-> valueMap[k].key]

HasOwn(valueMap, title) == \E k \in 1..Len(valueMap) : valueMap[k].key = title

\* title in valueMap: own and inherited properties both count
In(title, valueMap) == HasOwn(valueMap, title) \/ title \in ProtoKeys

\* the own entry of a key
Entry(valueMap, title) ==
    valueMap[CHOOSE k \in 1..Len(valueMap) : valueMap[k].key = title]

\* colors[Object.keys(valueMap).length % colors.length]
NextColor(colors, valueMap) == colors[(Len(valueMap) % Len(colors)) + 1]

-----------------------------------------------------------------------------
(* Bar chart renderer *)

\* the default palette (line 497; the timeline's fallback, line 1084)
DefaultColors ==
    <<"#7cd6fd", "#5e64ff", "#743ee2", "#ff5858", "#ffa00a", "#feef72", "#28a745",
      "#98d85b", "#b554ff", "#ffa3ef", "#36114C", "#bdd3e6", "#f0f4f7", "#b8c2cc">>

\* this.scale.visible ? 30 : 0
ScaleAllowance(c) == IF c.scale.visible THEN N(30) ELSE N(0)

RECURSIVE SumValues(_, _)
\* datasets.reduce((p, c) => p + c.value, 0)
SumValues(datasets, p) ==
    IF datasets = <<>> THEN p
    ELSE SumValues(Tail(datasets), PlusValue(p, Head(datasets).value))

RECURSIVE MaxOfSums(_, _)
\* data.reduce((p, c) => Math.max(p, <sum of c's values>), 0)
MaxOfSums(d, p) ==
    IF d = <<>> THEN p
    ELSE MaxOfSums(Tail(d), MathMax(p, SumValues(Head(d).datasets, N(0))))

\* "Find max value" (lines 588-594 and 735-741)
FindMax(c, d) == IF c.max = <<>> THEN MaxOfSums(d, N(0)) ELSE c.max[1]

\* the colour of dataset j (counted from 0) and the colour map after it
\* (lines 639-650 and 786-797)
ResolveBarColor(c, valueMap, title, j) ==
    IF c.fixColorToTitle
    THEN IF ~In(title, valueMap)
         THEN [color |-> NextColor(c.foregroundColors, valueMap),
               valueMap |-> Append(valueMap,
                   [key |-> title, color |-> NextColor(c.foregroundColors, valueMap)])]
         ELSE [color |-> IF HasOwn(valueMap, title) THEN Entry(valueMap, title).color
                         ELSE InheritedColor,
               valueMap |-> valueMap]
    ELSE [color |-> c.foregroundColors[(j % Len(c.foregroundColors)) + 1],
          valueMap |-> valueMap]

\* a test that lets a portion without extent through
DrawnFromZero(extent, offset, capsule) == Le(N(0), extent) /\ Lt(offset, capsule)

\* whether a portion is appended to the tree: height > 0 && y < barHeight
\* (lines 653 and 664; 800 and 811)
Drawn(extent, offset, capsule) == Gt(extent, N(0)) /\ Lt(offset, capsule)

\* one pass of the loop over the datasets of a bar (lines 636-669 and 783-816):
\* the state [offset, valueMap, colors, segments] after dataset j (from 1)
StackDataset(c, dataset, j, st, capsule, radius, max) ==
    LET Portion(value, title, res, extent, show) ==
            [offset   |-> IF show THEN Add(st.offset, extent) ELSE st.offset,
             valueMap |-> res.valueMap,
             colors   |-> Append(st.colors, res.color),
             segments |->
                IF show
                THEN Append(st.segments,
                         [j |-> j, value |-> value, title |-> title,
                          color |-> res.color, old |-> st.offset, delta |-> extent,
                          hover |-> c.hover.visible,
                          path |-> IF c.orientation /= "horizontal"
                                   THEN CreateVerticalBar(radius, extent, st.offset, capsule)
                                   ELSE CreateHorizontalBar(radius, extent, st.offset,
                                                            capsule)])
                ELSE st.segments]
        Sized(value, title, extent) ==
            Portion(value, title, ResolveBarColor(c, st.valueMap, title, j - 1), extent,
                    Drawn(extent, st.offset, capsule))
        Read(value, title) == Sized(value, title, Div(Mul(capsule, value), max))
    IN  Read(OrZero(dataset.value), OrEmpty(dataset.title))

RECURSIVE StackDatasets(_, _, _, _, _, _, _)
\* the loop over the datasets of one bar (lines 635-670 and 782-817)
StackDatasets(c, datasets, j, st, capsule, radius, max) ==
    IF j > Len(datasets) THEN st
    ELSE StackDatasets(c, datasets, j + 1,
             StackDataset(c, datasets[j], j, st, capsule, radius, max),
             capsule, radius, max)

\* the bar the loop body of lines 621-675 (768-822) adds, and the colour map
\* it hands to the next bar; the running offset starts at 0 in every bar
StackBar(bar, st) ==
    [valueMap |-> st.valueMap,
     bar |-> [label |-> OrEmpty(bar.label), colors |-> st.colors,
              segments |-> st.segments, filled |-> st.offset]]

RECURSIVE StackBars(_, _, _, _, _, _, _, _)
\* the loop over the bars (lines 621-675 and 768-822); valueMap is shared by
\* all bars of the render
StackBars(c, d, i, valueMap, bars, capsule, radius, max) ==
    IF i > Len(d) THEN bars
    ELSE
        LET Step(r) == StackBars(c, d, i + 1, r.valueMap, Append(bars, r.bar),
                                 capsule, radius, max)
        IN  Step(StackBar(d[i],
                     StackDatasets(c, d[i].datasets, 1,
                         [offset |-> N(0), valueMap |-> valueMap, colors |-> <<>>,
                          segments |-> <<>>],
                         capsule, radius, max)))

\* the container after "if (this.adjustSize)" of drawVertical (lines 579-582)
AdjustWidth(c, d, el) ==
    IF c.adjustSize
    THEN [el EXCEPT !.w = Add(Add(Mul(Add(c.barSize, c.distance[1]), N(Len(d))),
                                  c.padding.left), c.padding.right)]
    ELSE el

\* the container after "if (this.adjustSize)" of drawHorizontal (lines 726-729)
AdjustHeight(c, d, el) ==
    IF c.adjustSize
    THEN [el EXCEPT !.h = Add(Add(Mul(Add(N(Len(d)), c.distance[1]), c.barSize),
                                  c.padding.top), c.padding.bottom)]
    ELSE el

\* a spacing that ignores minDistance
BarSpacingNoMinimum(c, d, realExtent) ==
    IF c.distance = <<>>
    THEN Sub(Div(Sub(realExtent, ScaleAllowance(c)), N(Len(d))), c.barSize)
    ELSE c.distance[1]

\* Math.max(minDistance, distance === 'variable' ? (extent - allowance) / barCount
\* - barSize : distance) (lines 586 and 733)
BarSpacing(c, d, realExtent) ==
    MathMax(c.minDistance,
            IF c.distance = <<>>
            THEN Sub(Div(Sub(realExtent, ScaleAllowance(c)), N(Len(d))), c.barSize)
            ELSE c.distance[1])

RECURSIVE LabelWidth(_, _, _)
\* data.reduce over the labels: the widest label's width (line 722)
LabelWidth(d, p, viewboxWidthScale) ==
    IF d = <<>> THEN p
    ELSE LabelWidth(Tail(d),
             MathMax(p, IF Head(d).label /= <<>> /\ Len(Head(d).label[1]) > 0
                        THEN Mul(Add(N(2), Mul(N(Len(Head(d).label[1])), Q(15, 2))),
                                 viewboxWidthScale)
                        ELSE N(0)),
             viewboxWidthScale)

\* the lines and labels of the scale (lines 607-615 and 677-686, 754-762 and
\* 824-833): for (i = 1; i < Math.floor(max / interval); i++), each at i *
\* scaleStepSize from the base of the capsules; a NaN bound ends the loop at once
ScaleLines(c, capsule, max) ==
    LET Lines(steps) ==
            IF c.scale.visible /\ IsFinite(steps)
            THEN [i \in 1..(steps[1] - 1) |->
                     [label |-> Mul(N(i), c.scale.interval),
                      pos   |-> Mul(N(i), Div(capsule, steps))]]
            ELSE <<>>
    IN  Lines(MathFloor(Div(max, c.scale.interval)))

\* drawVertical up to the tree it builds (lines 572-686): the container after
\* the size adjustment and the new tree
DrawVertical(c, d, el) ==
    LET Tree(el2, barHeight, ry, realWidth, max) ==
            [el  |-> el2,
             svg |-> [kind |-> "vertical", capsule |-> barHeight, radius |-> ry,
                      max |-> max, barSpacing |-> BarSpacing(c, d, realWidth),
                      realExtent |-> realWidth,
                      bars |-> StackBars(c, d, 1, EmptyMap, <<>>, barHeight, ry, max),
                      scale |-> ScaleLines(c, barHeight, max),
                      transform |-> <<>>]]
        Sized(el2, viewboxHeightScale) ==
            Tree(el2,
                 Sub(N(100), Mul(N(25), viewboxHeightScale)),
                 Mul(Div(c.barSize, N(2)), viewboxHeightScale),
                 Sub(Sub(el2.w, c.padding.right), c.padding.left),
                 FindMax(c, d))
    IN  Sized(AdjustWidth(c, d, el),
              Div(N(100), Sub(Sub(el.h, c.padding.top), c.padding.bottom)))

\* drawHorizontal up to the tree it builds (lines 718-833)
DrawHorizontal(c, d, el) ==
    LET Tree(el2, barWidth, rx, realHeight, max) ==
            [el  |-> el2,
             svg |-> [kind |-> "horizontal", capsule |-> barWidth, radius |-> rx,
                      max |-> max, barSpacing |-> BarSpacing(c, d, realHeight),
                      realExtent |-> realHeight,
                      bars |-> StackBars(c, d, 1, EmptyMap, <<>>, barWidth, rx, max),
                      scale |-> ScaleLines(c, barWidth, max),
                      transform |-> <<>>]]
        Sized(el2, viewboxWidthScale) ==
            Tree(el2,
                 Sub(N(100), LabelWidth(d, N(0), viewboxWidthScale)),
                 Mul(Div(c.barSize, N(2)), viewboxWidthScale),
                 Sub(Sub(el2.h, c.padding.top), c.padding.bottom),
                 FindMax(c, d))
    IN  Sized(AdjustHeight(c, d, el),
              Div(N(100), Sub(Sub(el.w, c.padding.right), c.padding.left)))

-----------------------------------------------------------------------------
(* Timeline renderer *)

\* x % y for a finite x >= 0 and y > 0; NaN otherwise, as for a NaN operand
Rem(x, y) ==
    IF IsFinite(x) /\ IsFinite(y) /\ y[1] > 0 /\ x[1] >= 0
    THEN Sub(x, Mul(y, MathFloor(Div(x, y))))
    ELSE NaN

\* a whole number or NaN inside a template string
NumToString(x) ==
    IF IsNaN(x) THEN "NaN"
    ELSE IF IsFinite(x) THEN ToString(x[1])
    ELSE IF x[1] > 0 THEN "Infinity" ELSE "-Infinity"

\* a formatMinutes without the case of whole hours
FormatMinutesAlwaysMinutes(minutes) ==
    LET Format(h, m) ==
            IF m = N(0) /\ h = N(0) THEN ""
            ELSE IF h = N(0) THEN NumToString(m) \o "m"
            ELSE NumToString(h) \o "h " \o NumToString(m) \o "m"
    IN  Format(MathFloor(Div(minutes, N(60))), MathFloor(Rem(minutes, N(60))))

\* formatMinutes (lines 1217-1230)
FormatMinutes(minutes) ==
    LET Format(h, m) ==
            IF m = N(0) /\ h = N(0) THEN ""
            ELSE IF m = N(0) THEN NumToString(h) \o "h"
            ELSE IF h = N(0) THEN NumToString(m) \o "m"
            ELSE NumToString(h) \o "h " \o NumToString(m) \o "m"
    IN  Format(MathFloor(Div(minutes, N(60))), MathFloor(Rem(minutes, N(60))))

\* whether line 1035 throws: c.label.length of a track without a label
LabelLengthThrows(d) == \E i \in 1..Len(d.timelines) : d.timelines[i].label = <<>>

RECURSIVE TextWidth1(_, _, _)
\* the widest track label (line 1035), for tracks that all have a label
TextWidth1(tracks, p, viewboxWidthScale) ==
    IF tracks = <<>> THEN p
    ELSE TextWidth1(Tail(tracks),
             MathMax(p, IF Len(Head(tracks).label[1]) > 0
                        THEN Mul(Add(N(40), Mul(N(Len(Head(tracks).label[1])), Q(15, 2))),
                                 viewboxWidthScale)
                        ELSE N(0)),
             viewboxWidthScale)

RECURSIVE TextWidth2Values(_, _, _)
\* c.values.reduce of line 1036
TextWidth2Values(values, p, viewboxWidthScale) ==
    IF values = <<>> THEN p
    ELSE TextWidth2Values(Tail(values),
             MathMax(p, Mul(Add(N(10),
                                Mul(N(Len(FormatMinutes(Head(values).length))), Q(15, 2))),
                            viewboxWidthScale)),
             viewboxWidthScale)

RECURSIVE TextWidth2(_, _, _)
\* the widest duration readout (line 1036)
TextWidth2(tracks, p, viewboxWidthScale) ==
    IF tracks = <<>> THEN p
    ELSE TextWidth2(Tail(tracks),
             MathMax(p, TextWidth2Values(Head(tracks).values, N(0), viewboxWidthScale)),
             viewboxWidthScale)

RECURSIVE SumLengths(_, _)
\* values.reduce((p, c) => p + c.length, 0) (line 1086)
SumLengths(values, p) ==
    IF values = <<>> THEN p ELSE SumLengths(Tail(values), Add(p, Head(values).length))

\* an accumulation that keeps only the last interval's length of a title
ResolveOverwritingTotal(colors, valueMap, title, length) ==
    IF ~In(title, valueMap)
    THEN [color |-> NextColor(colors, valueMap),
          valueMap |-> Append(valueMap, [key |-> title,
                                          color |-> NextColor(colors, valueMap),
                                          value |-> length])]
    ELSE IF HasOwn(valueMap, title)
    THEN [color |-> Entry(valueMap, title).color,
          valueMap |-> [k \in 1..Len(valueMap) |->
                           IF valueMap[k].key = title
                           THEN [valueMap[k] EXCEPT !.value = length]
                           ELSE valueMap[k]]]
    ELSE [color |-> UndefinedColor, valueMap |-> valueMap]

\* the colour of an interval and the map after it (lines 1114-1125)
ResolveTimelineColor(colors, valueMap, title, length) ==
    IF ~In(title, valueMap)
    THEN [color |-> NextColor(colors, valueMap),
          valueMap |-> Append(valueMap, [key |-> title,
                                          color |-> NextColor(colors, valueMap),
                                          value |-> length])]
    ELSE IF HasOwn(valueMap, title)
    THEN [color |-> Entry(valueMap, title).color,
          valueMap |-> [k \in 1..Len(valueMap) |->
                           IF valueMap[k].key = title
                           THEN [valueMap[k] EXCEPT !.value = Add(@, length)]
                           ELSE valueMap[k]]]
    ELSE [color |-> UndefinedColor, valueMap |-> valueMap]

\* a test that sends only negative widths to the fallback
TooShortIfNegative(width, rx) == Lt(width, N(0))

\* if (width - rx * 2 < 0): the bar is too short for its two caps (line 1150)
TooShort(width, rx) == Lt(Sub(width, Mul(rx, N(2))), N(0))

\* one pass of "Draw foreground" (lines 1109-1173): st = [valueMap, segments]
\* after interval v, the j-th of its track; g is the geometry of the render
DrawInterval(c, v, colors, j, st, g) ==
    LET Shape(title, res, relativeStart, relativeLength, width) ==
            [valueMap |-> res.valueMap,
             segments |-> Append(st.segments,
                 [j |-> j, title |-> title, color |-> res.color,
                  start |-> v.start, end |-> Add(v.start, v.length),
                  left |-> Mul(g.lineWidth, relativeStart), width |-> width,
                  shape |-> IF TooShort(width, g.rx) THEN "lens" ELSE "pill",
                  straight |-> IF TooShort(width, g.rx) THEN <<>>
                               ELSE <<Sub(Mul(g.lineWidth,
                                              Sub(relativeLength, relativeStart)),
                                          Mul(g.rx, N(2)))>>,
                  hover |-> c.hover.visible])]
        Place(title, range, relativeStart, relativeLength) ==
            Shape(title, ResolveTimelineColor(colors, st.valueMap, title, v.length),
                  relativeStart, relativeLength,
                  Mul(g.lineWidth, Sub(relativeLength, relativeStart)))
        Scale(title, range) ==
            Place(title, range,
                  Div(MathMax(N(0), Sub(v.start, c.scale.from)), range),
                  Div(MathMax(N(0), Add(Sub(v.start, c.scale.from), v.length)), range))
    IN  Scale(OrEmpty(v.title), Sub(c.scale.to, c.scale.from))

RECURSIVE DrawIntervals(_, _, _, _, _, _)
\* the loop of "Draw foreground" from interval j on
DrawIntervals(c, values, colors, j, st, g) ==
    IF j > Len(values) THEN st
    ELSE DrawIntervals(c, values, colors, j + 1,
                       DrawInterval(c, values[j], colors, j, st, g), g)

\* one legend entry (lines 1188-1201): st = [x, entries] after own key k
DrawLegendEntry(entry, st, g) ==
    LET Item(content, width) ==
            [x |-> Add(Add(st.x, width), Mul(N(10), g.viewboxWidthScale)),
             entries |-> Append(st.entries,
                            [key |-> entry.key, content |-> content,
                             total |-> entry.value, color |-> entry.color,
                             x |-> st.x, width |-> width])]
        Measure(content) ==
            Item(content, Add(Mul(Mul(N(Len(content)), Q(15, 2)), g.viewboxWidthScale),
                              Mul(N(2), g.rx)))
    IN  Measure(entry.key \o " - " \o FormatMinutes(entry.value))

RECURSIVE DrawLegend(_, _, _, _, _)
\* "Draw legend" of one track (lines 1186-1202) from own key k on
DrawLegend(c, valueMap, k, st, g) ==
    IF ~c.legend \/ k > Len(valueMap) THEN st
    ELSE DrawLegend(c, valueMap, k + 1, DrawLegendEntry(valueMap[k], st, g), g)

\* the body of the loop over the tracks (lines 1081-1203): the track drawn and
\* the legend offset after it
DrawTrack(c, t, x, g) ==
    LET Track(st, leg) ==
            [x |-> leg.x,
             track |-> [label |-> OrEmpty(t.label),
                        sum |-> FormatMinutes(SumLengths(t.values, N(0))),
                        segments |-> st.segments,
                        legend |-> leg.entries]]
        Legend(st) == Track(st, DrawLegend(c, st.valueMap, 1,
                                           [x |-> x, entries |-> <<>>], g))
    IN  Legend(DrawIntervals(c, t.values,
                             IF t.colors = <<>> THEN DefaultColors ELSE t.colors[1],
                             1, [valueMap |-> EmptyMap, segments |-> <<>>], g))

RECURSIVE DrawTracks(_, _, _, _, _, _)
\* "Draw data" (lines 1078-1204) from track i on; x is the running legend
\* offset, carried over all tracks of the render
DrawTracks(c, d, i, x, tracks, g) ==
    IF i > Len(d.timelines) THEN tracks
    ELSE
        LET Step(r) == DrawTracks(c, d, i + 1, r.x, Append(tracks, r.track), g)
        IN  Step(DrawTrack(c, d.timelines[i], x, g))

\* the container after "if (this.adjustSize)" of draw (lines 1045-1048)
AdjustTimelineHeight(c, d, el) ==
    IF c.adjustSize
    THEN [el EXCEPT !.h =
             Add(Add(Add(Add(Add(N(20), IF c.legend THEN c.lineHeight ELSE N(0)),
                             IF c.legend THEN c.legendDistance ELSE N(0)),
                         Mul(N(Len(d.timelines)), Add(c.lineHeight, c.distance[1]))),
                     c.padding.top), c.padding.bottom)]
    ELSE el

\* the labels of the axis header (lines 1064-1076): for (i = 0; i <=
\* intervalSteps; i++), each with the time it shows and its x; a NaN or negative
\* bound ends the loop at once
AxisLabels(c, widthLeft, lineWidth) ==
    LET Labels(range, intervalSteps) ==
            IF IsFinite(intervalSteps) /\ intervalSteps[1] >= 0
            THEN [k \in 1..(intervalSteps[1] + 1) |->
                     [time |-> Add(Add(c.scale.from, c.scale.intervalStart),
                                   Mul(N(k - 1), c.scale.interval)),
                      x    |-> Add(Add(widthLeft,
                                       Mul(Div(c.scale.intervalStart, range), lineWidth)),
                                   Mul(N(k - 1), Div(lineWidth, intervalSteps)))]]
            ELSE <<>>
        Steps(range) == Labels(range, MathFloor(Div(range, c.scale.interval)))
    IN  Steps(Sub(c.scale.to, c.scale.from))

\* draw up to the tree it builds (lines 1031-1204), for data whose tracks all
\* have a label; the legend offset x starts at 0 (line 1078)
Draw(c, d, el) ==
    LET Tree(el2, viewboxWidthScale, widthLeft, lineWidth, rx) ==
            [el  |-> el2,
             svg |-> [kind |-> "timeline", lineWidth |-> lineWidth,
                      widthLeft |-> widthLeft, radius |-> rx,
                      header |-> AxisLabels(c, widthLeft, lineWidth),
                      tracks |-> DrawTracks(c, d, 1, N(0), <<>>,
                                     [viewboxWidthScale |-> viewboxWidthScale,
                                      lineWidth |-> lineWidth, widthLeft |-> widthLeft,
                                      rx |-> rx])]]
        Line(viewboxWidthScale, widthLeft) ==
            Tree(AdjustTimelineHeight(c, d, el), viewboxWidthScale, widthLeft,
                 Sub(Sub(N(100), widthLeft), Mul(N(20), viewboxWidthScale)),
                 Mul(Div(c.lineHeight, N(2)), viewboxWidthScale))
        Left(viewboxWidthScale) ==
            Line(viewboxWidthScale,
                 IF c.legendTextWidth = <<>>
                 THEN MathMax(Add(TextWidth1(d.timelines, N(0), viewboxWidthScale),
                                  TextWidth2(d.timelines, N(0), viewboxWidthScale)),
                              Mul(N(20), viewboxWidthScale))
                 ELSE Mul(c.legendTextWidth[1], viewboxWidthScale))
    IN  Left(Div(N(100), Sub(Sub(el.w, c.padding.right), c.padding.left)))

-----------------------------------------------------------------------------
(* Construction *)

\* the elements of the longer array, the caller's own first: what mergeObjects
\* does to an array, whose keys are its indices
MergeArray(obj, merger) ==
    [k \in 1..(IF Len(obj) > Len(merger) THEN Len(obj) ELSE Len(merger)) |->
        IF k <= Len(obj) THEN obj[k] ELSE merger[k]]

RECURSIVE MergeObjects(_, _, _, _)
\* mergeObjects(obj, merger) without overwrite (lines 45-57); objects and arrays
\* name the keys of merger whose typeof is "object"
MergeObjects(obj, merger, objects, arrays) ==
    [key \in DOMAIN obj \cup DOMAIN merger |->
        IF key \notin DOMAIN obj THEN merger[key]
        ELSE IF key \notin DOMAIN merger THEN obj[key]
        ELSE IF key \in objects THEN MergeObjects(obj[key], merger[key], objects, arrays)
        ELSE IF key \in arrays THEN MergeArray(obj[key], merger[key])
        ELSE obj[key]]

\* the defaults of the Barchart constructor (lines 488-520); max and distance
\* are <<>> for 'relative' and 'variable'
BarchartDefaults ==
    [data |-> <<>>,
     padding |-> [top |-> N(0), right |-> N(0), bottom |-> N(0), left |-> N(0)],
     colors |-> [foreground |-> DefaultColors, fixToTitle |-> TRUE],
     orientation |-> "vertical",
     hover |-> [visible |-> TRUE],
     barSize |-> N(25),
     distance |-> <<>>,
     minDistance |-> N(0),
     adjustSize |-> FALSE,
     max |-> <<>>,
     scale |-> [visible |-> TRUE, interval |-> N(10)],
     draggable |-> FALSE]

\* the fields the Barchart constructor sets (lines 522-538)
BarchartFields(params) ==
    LET p == MergeObjects(params, BarchartDefaults,
                          {"padding", "colors", "hover", "scale"},
                          {"data", "foreground"})
    IN  [data |-> p.data,
         cfg  |-> [padding |-> p.padding, max |-> p.max,
                   foregroundColors |-> p.colors.foreground,
                   fixColorToTitle |-> p.colors.fixToTitle,
                   orientation |-> p.orientation, hover |-> p.hover,
                   barSize |-> p.barSize, distance |-> p.distance,
                   minDistance |-> p.minDistance,
                   adjustSize |-> (p.distance /= <<>> /\ p.adjustSize),
                   scale |-> p.scale, draggable |-> p.draggable]]

\* the defaults of the Timeline constructor (lines 963-997); textWidth and
\* distance are <<>> for 'variable'
TimelineDefaults ==
    [scale |-> [from |-> N(0), to |-> N(1440), interval |-> N(240),
                intervalStart |-> N(0)],
     data |-> [timelines |-> <<>>],
     padding |-> [top |-> N(0), right |-> N(0), bottom |-> N(0), left |-> N(0)],
     hover |-> [visible |-> TRUE],
     legend |-> [visible |-> TRUE, distance |-> N(15), textWidth |-> <<>>],
     lineHeight |-> N(25),
     distance |-> <<>>,
     adjustSize |-> FALSE]

\* the fields the Timeline constructor sets (lines 999-1012)
TimelineFields(params) ==
    LET p == MergeObjects(params, TimelineDefaults,
                          {"scale", "data", "padding", "hover", "legend"},
                          {"timelines"})
    IN  [data |-> p.data,
         cfg  |-> [scale |-> p.scale, padding |-> p.padding, hover |-> p.hover,
                   legend |-> p.legend.visible, legendDistance |-> p.legend.distance,
                   legendTextWidth |-> p.legend.textWidth,
                   lineHeight |-> p.lineHeight, distance |-> p.distance,
                   adjustSize |-> (p.distance /= <<>> /\ p.adjustSize),
                   draggable |-> FALSE]]

\* a constructor without the test for the container
ContainerNeverMissing(el) == FALSE

\* this.container == null (lines 482 and 957)
ContainerMissing(el) == ~el.found

-----------------------------------------------------------------------------
(* One render and its effects on the instance and the container *)

\* a clear that removes nothing
ClearNothing(children) == children

\* clear(obj): no child is left (lines 31-35)
Clear(children) == <<>>

\* drag state kept on the instance instead of in the closure of one render
KeptDrag == drag

\* the closure of the drag handlers a render creates (lines 693-694, 840-841)
NewDrag == [startPos |-> <<>>, currentTranslate |-> N(0)]

\* the element of a tree or of a tooltip among the container's children
Element(tag, id) == [tag |-> tag, id |-> id]

\* the draw function of the instance, run on data d; it throws, before it
\* changed anything, on a missing container and on line 1035
Build(ch, c, d, el) ==
    IF ~el.found THEN [threw |-> TRUE]
    ELSE IF ch = "bar"
    THEN [threw |-> FALSE,
          out |-> IF c.orientation /= "horizontal" THEN DrawVertical(c, d, el)
                  ELSE DrawHorizontal(c, d, el)]
    ELSE IF LabelLengthThrows(d) THEN [threw |-> TRUE]
    ELSE [threw |-> FALSE, out |-> Draw(c, d, el)]

\* a draw call that updates the tree it finds instead of replacing it
FinishInPlace(c, out) ==
    [svg       |-> [tree |-> out.svg, id |-> IF svg = <<>> THEN renders + 1 ELSE svg.id],
     container |-> [out.el EXCEPT !.children =
                       IF svg = <<>> THEN <<Element("svg", renders + 1)>> ELSE @],
     tooltip   |-> tooltip,
     drag      |-> IF c.draggable THEN NewDrag ELSE drag,
     mouseup   |-> IF c.draggable THEN listeners.mouseup + 1 ELSE listeners.mouseup]

\* the state a completed draw call leaves: the container cleared and holding
\* the new tree, the tooltip handle reset (lines 688-711, 835-858, 1206-1208)
Finish(c, out) ==
    [svg       |-> [tree |-> out.svg, id |-> renders + 1],
     container |-> [out.el EXCEPT !.children =
                       Append(Clear(out.el.children), Element("svg", renders + 1))],
     tooltip   |-> <<>>,
     drag      |-> IF c.draggable THEN NewDrag ELSE drag,
     mouseup   |-> IF c.draggable THEN listeners.mouseup + 1 ELSE listeners.mouseup]

-----------------------------------------------------------------------------
(* Tooltips *)

\* a hover callback that writes the separator before an empty title too
BarchartHoverAlwaysTitle(title, value) ==
    [value |-> value, suffix |-> ": " \o title]

\* the default hover callback of the bar chart (line 506), without its markup
BarchartHoverCallback(title, value) ==
    [value |-> value, suffix |-> IF title /= "" THEN ": " \o title ELSE ""]

\* formatMinutes2 (lines 1238-1253)
FormatMinutes2(minutes) ==
    LET Format(h, ending, m) ==
            IF m = N(0) THEN NumToString(h) \o " " \o ending
            ELSE NumToString(h) \o ":"
                 \o (IF Lt(m, N(10)) THEN NumToString(m) \o "0" ELSE NumToString(m))
                 \o " " \o ending
        Half(h, m) == IF Gt(h, N(12)) THEN Format(Sub(h, N(12)), "pm", m)
                      ELSE Format(h, "am", m)
    IN  Half(MathFloor(Div(minutes, N(60))), MathFloor(Rem(minutes, N(60))))

\* the default hover callback of the timeline (line 986), without its markup
TimelineHoverCallback(title, start, end) ==
    [value |-> FormatMinutes2(start) \o " - " \o FormatMinutes2(end),
     suffix |-> IF title /= "" THEN ": " \o title ELSE ""]

\* showTooltip (lines 869-890 and 1264-1285): the tooltip handle and the
\* container's children after the call
ShowTooltip(show, html) ==
    LET Shown(el) ==
            IF show THEN [el EXCEPT !.visibility = "visible", !.html = <<html>>]
            ELSE [el EXCEPT !.visibility = "hidden"]
    IN  IF tooltip = <<>>
        THEN [tooltip  |-> <<Shown([id |-> svg.id, visibility |-> "", html |-> <<>>])>>,
              children |-> Append(container.children, Element("div", svg.id))]
        ELSE [tooltip  |-> <<Shown(tooltip[1])>>,
              children |-> container.children]

-----------------------------------------------------------------------------
(* Bounds and inputs *)

\* datasets per bar
MaxSegs == 2

\* intervals per track
MaxIntervals == 3

\* completed renders of one instance
MaxRenders == 3

\* the largest number of minutes a formatting method is called on
MaxMinutes == 1440

\* the largest radius, offset, extent and capsule of a path function's call,
\* in halves
MaxHalves == 6

SeqsUpTo(S, n) == UNION {[1..k -> S] : k \in 0..n}

Seg(v, t) == [value |-> v, title |-> t]

SegSet ==
    {Seg(<<Q(1, 2)>>, <<"A">>), Seg(<<Q(1, 2)>>, <<"B">>), Seg(<<N(2)>>, <<"B">>),
     Seg(<<N(0)>>, <<"B">>), Seg(<<>>, <<"A">>), Seg(<<Q(1, 2)>>, <<>>),
     Seg(<<Q(1, 2)>>, <<"constructor">>)}

FirstBars ==
    {[label |-> l, datasets |-> ds] : l \in {<<>>, <<"Mo">>}, ds \in SeqsUpTo(SegSet, MaxSegs)}

SecondBars ==
    {[label |-> <<"Tuesday">>, datasets |-> <<Seg(<<Q(1, 2)>>, <<"B">>), Seg(<<N(1)>>, <<"A">>)>>],
     [label |-> <<"Tu">>, datasets |-> <<Seg(<<Q(3, 2)>>, <<"C">>)>>]}

BarDataSet ==
    {<<>>} \cup {<<b>> : b \in FirstBars}
           \cup {<<b1, b2>> : b1 \in FirstBars, b2 \in SecondBars}

BarVariants ==
    {<<>>,
     [max |-> <<N(1)>>],
     [orientation |-> "horizontal"],
     [orientation |-> "horizontal", max |-> <<N(1)>>, scale |-> [visible |-> FALSE]],
     [colors |-> [fixToTitle |-> FALSE], max |-> <<N(2)>>],
     [colors |-> [foreground |-> <<"red", "green">>], hover |-> [visible |-> FALSE]],
     [distance |-> <<N(10)>>, minDistance |-> N(20), adjustSize |-> TRUE,
      padding |-> [left |-> N(5), right |-> N(7)]],
     [orientation |-> "horizontal", distance |-> <<N(10)>>, adjustSize |-> TRUE,
      padding |-> [top |-> N(3), bottom |-> N(4)]],
     [minDistance |-> N(100), adjustSize |-> TRUE],
     [orientation |-> "horizontal", distance |-> <<N(10)>>, minDistance |-> N(20)],
     [scale |-> [interval |-> Q(1, 2)]],
     [orientation |-> "horizontal", scale |-> [interval |-> Q(3, 4)], max |-> <<N(2)>>]}

Sizes == {[w |-> N(400), h |-> N(250)], [w |-> N(200), h |-> N(125)]}

Interval(s, l, t) == [start |-> N(s), length |-> N(l), title |-> t]

IntervalSet ==
    {Interval(0, 30, <<"A">>), Interval(30, 30, <<"A">>), Interval(30, 45, <<"B">>),
     Interval(0, 30, <<"constructor">>), Interval(80, 30, <<>>)}

TrackStyles ==
    {[label |-> <<"WORK">>, colors |-> <<>>],
     [label |-> <<"WORK">>, colors |-> << <<"#111111", "#222222">> >>],
     [label |-> <<>>, colors |-> <<>>]}

FirstTracks ==
    {[label |-> st.label, colors |-> st.colors, values |-> vs] :
        st \in TrackStyles, vs \in SeqsUpTo(IntervalSet, MaxIntervals)}

SecondTracks ==
    {[label |-> <<"STUDY">>, colors |-> <<>>,
      values |-> <<Interval(0, 30, <<"A">>), Interval(45, 15, <<"B">>)>>],
     [label |-> <<"">>, colors |-> << <<"#333333">> >>,
      values |-> <<Interval(30, 30, <<"constructor">>)>>]}

TimelineDataSet ==
    {[timelines |-> ts] :
        ts \in {<<>>} \cup {<<t>> : t \in FirstTracks}
                      \cup {<<t1, t2>> : t1 \in FirstTracks, t2 \in SecondTracks}}

TimelineVariants ==
    {[scale |-> [from |-> N(0), to |-> N(60)]],
     [scale |-> [from |-> N(30), to |-> N(90), interval |-> N(30)],
      legend |-> [visible |-> FALSE]],
     [scale |-> [from |-> N(0), to |-> N(100), interval |-> N(30)]]}

\* the instances whose whole life is explored: few inputs, every event
LifeBarData ==
    {<<[label |-> <<"Mo">>,
        datasets |-> <<Seg(<<Q(1, 2)>>, <<"A">>), Seg(<<Q(1, 2)>>, <<"B">>)>>]>>,
     <<[label |-> <<>>, datasets |-> <<Seg(<<N(1)>>, <<>>)>>],
       [label |-> <<"Tu">>,
        datasets |-> <<Seg(<<N(2)>>, <<"A">>), Seg(<<N(0)>>, <<"B">>),
                       Seg(<<N(1)>>, <<"B">>)>>]>>}

LifeBarVariants ==
    {[draggable |-> TRUE, distance |-> <<N(150)>>],
     [orientation |-> "horizontal", draggable |-> TRUE, distance |-> <<N(100)>>,
      hover |-> [visible |-> FALSE]],
     [max |-> <<N(2)>>, distance |-> <<N(10)>>, adjustSize |-> TRUE]}

LifeTimelineData ==
    {[timelines |-> <<[label |-> <<"WORK">>, colors |-> <<>>,
                       values |-> <<Interval(0, 30, <<"A">>), Interval(30, 30, <<"A">>)>>]>>],
     [timelines |-> <<[label |-> <<"WORK">>, colors |-> << <<"#111111", "#222222">> >>,
                       values |-> <<Interval(0, 30, <<"B">>), Interval(30, 45, <<"A">>)>>],
                      [label |-> <<"STUDY">>, colors |-> <<>>,
                       values |-> <<Interval(45, 15, <<"A">>)>>]>>],
     [timelines |-> <<[label |-> <<>>, colors |-> <<>>,
                       values |-> <<Interval(0, 30, <<"A">>)>>]>>]}

LifeTimelineVariants ==
    {[scale |-> [from |-> N(0), to |-> N(60)]],
     [scale |-> [from |-> N(0), to |-> N(60)], distance |-> <<N(10)>>,
      adjustSize |-> TRUE, hover |-> [visible |-> FALSE]]}

\* clientX / clientY of the pointer events
PointerCoords == {N(0), N(40), N(100)}

-----------------------------------------------------------------------------
(* The instance as a state machine *)

NoTree == <<>>

\* no formatting method has been called
NoCall == [fn |-> "none"]

\* before "new": nothing is configured, rendered or registered
Blank ==
    /\ pc = "new"
    /\ cfg = <<>>
    /\ data = <<>>
    /\ svg = NoTree
    /\ tooltip = <<>>
    /\ drag = [startPos |-> <<>>, currentTranslate |-> N(0)]
    /\ listeners = [resize |-> 0, mouseup |-> 0]
    /\ console = 0
    /\ thrown = FALSE
    /\ renders = 0
    /\ call = NoCall

\* the caller's choice of class, container and params for a whole life
Init ==
    /\ Blank
    /\ chart \in {"bar", "timeline"}
    /\ container \in {[found |-> f, w |-> N(200), h |-> N(125), children |-> <<>>] :
                         f \in BOOLEAN}
    /\ args \in {<<>>} \cup
                (IF chart = "bar"
                 THEN {<<v @@ [data |-> d]>> : v \in LifeBarVariants, d \in LifeBarData}
                 ELSE {<<v @@ [data |-> d]>> :
                          v \in LifeTimelineVariants, d \in LifeTimelineData})

\* the inputs of the bar chart's draw functions
InitBarchart ==
    /\ Blank
    /\ chart = "bar"
    /\ container \in {[found |-> TRUE, w |-> sz.w, h |-> sz.h, children |-> <<>>] :
                         sz \in Sizes}
    /\ args \in {<<v @@ [data |-> d]>> : v \in BarVariants, d \in BarDataSet}

\* the inputs of the timeline's draw function
InitTimeline ==
    /\ Blank
    /\ chart = "timeline"
    /\ container \in {[found |-> TRUE, w |-> sz.w, h |-> sz.h, children |-> <<>>] :
                         sz \in Sizes}
    /\ args \in {<<v @@ [data |-> d]>> : v \in TimelineVariants, d \in TimelineDataSet}

\* the effects of a draw call on data d under configuration c: a completed
\* render, or a throw that leaves the tree and the container as they were;
\* resize counts the resize callback the caller registers after the draw
Render(c, d, el, resize) ==
    LET Done(r) ==
            /\ thrown' = FALSE
            /\ svg' = r.svg
            /\ container' = r.container
            /\ tooltip' = r.tooltip
            /\ drag' = r.drag
            /\ renders' = renders + 1
            /\ listeners' = [resize  |-> listeners.resize + resize,
                             mouseup |-> r.mouseup]
        Try(b) ==
            IF b.threw
            THEN /\ thrown' = TRUE
                 /\ container' = el
                 /\ UNCHANGED <<svg, tooltip, drag, renders, listeners>>
            ELSE Done(Finish(c, b.out))
    IN  Try(Build(chart, c, d, el))

\* the constructor of either class: the missing container (lines 481-485,
\* 956-960), mergeObjects on the params (488, 963), the fields, the first
\* draw and the registration for resizes (540-565, 1014-1024)
Construct(fields) ==
    /\ pc = "new"
    /\ UNCHANGED <<call, chart, args>>
    /\ IF ContainerMissing(container)
       THEN /\ pc' = "aborted"
            /\ console' = console + 1
            /\ UNCHANGED <<cfg, data, container, svg, tooltip, drag, listeners,
                           thrown, renders>>
       ELSE IF args = <<>>
       THEN /\ pc' = "threw"
            /\ thrown' = TRUE
            /\ UNCHANGED <<cfg, data, container, svg, tooltip, drag, listeners,
                           console, renders>>
       ELSE /\ cfg' = fields.cfg
            /\ data' = fields.data
            /\ console' = console
            /\ Render(fields.cfg, fields.data, container, 1)
            /\ pc' = IF thrown' THEN "threw" ELSE "ready"

\* new Barchart(element, params) (lines 480-566)
ConstructBarchart ==
    /\ chart = "bar"
    /\ Construct(IF args = <<>> THEN <<>> ELSE BarchartFields(args[1]))

\* new Timeline(element, params) (lines 955-1025)
ConstructTimeline ==
    /\ chart = "timeline"
    /\ Construct(IF args = <<>> THEN <<>> ELSE TimelineFields(args[1]))

\* Barchart.setData(data) (lines 900-907)
BarchartSetData ==
    /\ chart = "bar"
    /\ pc = "ready"
    /\ renders < MaxRenders
    /\ \E d \in LifeBarData :
          /\ data' = d
          /\ Render(cfg, d, container, 0)
    /\ UNCHANGED <<call, chart, pc, args, cfg, console>>

\* Timeline.setData(data) (lines 1299-1302)
TimelineSetData ==
    /\ chart = "timeline"
    /\ pc = "ready"
    /\ renders < MaxRenders
    /\ \E d \in LifeTimelineData :
          /\ data' = d
          /\ Render(cfg, d, container, 0)
    /\ UNCHANGED <<call, chart, pc, args, cfg, console>>

\* a resize notification: the container has a size of Sizes and the callback
\* registered by the constructor draws again (lines 543-564, 1015-1024)
Resize ==
    /\ pc = "ready"
    /\ listeners.resize > 0
    /\ renders < MaxRenders
    /\ \E sz \in Sizes :
          Render(cfg, data, [container EXCEPT !.w = sz.w, !.h = sz.h], 0)
    /\ UNCHANGED <<call, chart, pc, args, cfg, data, console>>

\* the bars or the tracks of the current tree
Rows == IF chart = "bar" THEN svg.tree.bars ELSE svg.tree.tracks

\* the portions of the current tree that carry hover listeners, as
\* <<bar or track, position among its drawn portions>>
Hoverable ==
    IF svg = NoTree THEN {}
    ELSE {p \in (1..Len(Rows)) \X (1..(MaxSegs + MaxIntervals)) :
             /\ p[2] <= Len(Rows[p[1]].segments)
             /\ Rows[p[1]].segments[p[2]].hover}

\* the handle and the children a tooltip call leaves
SetTooltip(r) ==
    /\ tooltip' = r.tooltip
    /\ container' = [container EXCEPT !.children = r.children]

\* what the hover callback returns for a portion
HoverHtml(seg) ==
    IF chart = "bar" THEN BarchartHoverCallback(seg.title, seg.value)
    ELSE TimelineHoverCallback(seg.title, seg.start, seg.end)

\* mouseenter on a portion (lines 660, 807, 1170)
MouseEnter ==
    /\ pc = "ready"
    /\ \E p \in Hoverable :
          SetTooltip(ShowTooltip(TRUE, HoverHtml(Rows[p[1]].segments[p[2]])))
    /\ UNCHANGED <<call, chart, pc, args, cfg, data, svg, drag, listeners, console, thrown,
                   renders>>

\* mouseleave on the portion the pointer entered (lines 661, 808, 1171)
MouseLeave ==
    /\ pc = "ready"
    /\ tooltip /= <<>>
    /\ tooltip[1].visibility = "visible"
    /\ SetTooltip(ShowTooltip(FALSE, <<>>))
    /\ UNCHANGED <<call, chart, pc, args, cfg, data, svg, drag, listeners, console, thrown,
                   renders>>

\* whether the current tree has drag handlers (lines 692, 839)
Draggable == pc = "ready" /\ chart = "bar" /\ cfg.draggable /\ svg /= NoTree

\* mousedown on the tree (lines 696, 843)
MouseDown ==
    /\ Draggable
    /\ \E pos \in PointerCoords : drag' = [drag EXCEPT !.startPos = <<pos>>]
    /\ UNCHANGED <<call, chart, pc, args, cfg, data, container, svg, tooltip, listeners,
                   console, thrown, renders>>

\* the on-screen extent of the data group along the drag axis: from the first
\* capsule to the last (the labels' overhang is left out)
GroupExtent(c, tree) ==
    IF Len(tree.bars) = 0 THEN N(0)
    ELSE Add(Mul(N(Len(tree.bars) - 1), tree.barSpacing),
             Mul(N(Len(tree.bars)), c.barSize))

\* parseFloat(style.transform ...) || 0 (lines 705, 852)
CurrentTranslate(transform) ==
    IF transform = <<>> \/ IsNaN(transform[1]) THEN N(0) ELSE transform[1]

\* a move that is only kept from going right of the origin
NewPosUnclamped(c, tree, d, pos) ==
    MathMin(N(0), Sub(Add(d.currentTranslate, pos), d.startPos[1]))

\* the clamped position of a move during a drag (lines 699-701, 846-848)
NewPos(c, tree, d, pos) ==
    MathMax(MathMin(N(0), Sub(Add(d.currentTranslate, pos), d.startPos[1])),
            Neg(MathMax(N(0), Sub(Add(Add(ScaleAllowance(c),
                                          Mul(Q(1, 2), tree.barSpacing)),
                                      GroupExtent(c, tree)),
                                  tree.realExtent))))

\* if (startPos): undefined and 0 are both falsy
Truthy(startPos) == startPos /= <<>> /\ startPos[1] /= N(0) /\ ~IsNaN(startPos[1])

\* the transform a move during a drag leaves: one that is not a finite length
\* is rejected by the style and the old one stays
Moved(transform, newPos) == IF IsFinite(newPos) THEN <<newPos>> ELSE transform

\* mousemove on the tree (lines 697-707, 844-854)
MouseMove ==
    /\ Draggable
    /\ \E pos \in PointerCoords :
          IF Truthy(drag.startPos)
          THEN /\ svg' = [svg EXCEPT !.tree.transform =
                             Moved(@, NewPos(cfg, svg.tree, drag, pos))]
               /\ drag' = drag
          ELSE /\ drag' = [drag EXCEPT
                              !.currentTranslate = CurrentTranslate(svg.tree.transform)]
               /\ svg' = svg
    /\ UNCHANGED <<call, chart, pc, args, cfg, data, container, tooltip, listeners, console,
                   thrown, renders>>

\* mouseup anywhere in the document (lines 708, 855)
MouseUp ==
    /\ Draggable
    /\ listeners.mouseup > 0
    /\ drag' = [drag EXCEPT !.startPos = <<>>]
    /\ UNCHANGED <<call, chart, pc, args, cfg, data, container, svg, tooltip, listeners,
                   console, thrown, renders>>

Next ==
    \/ ConstructBarchart
    \/ ConstructTimeline
    \/ BarchartSetData
    \/ TimelineSetData
    \/ Resize
    \/ MouseEnter
    \/ MouseLeave
    \/ MouseDown
    \/ MouseMove
    \/ MouseUp

Spec == Init /\ [][Next]_vars

NextBarchart == ConstructBarchart

SpecBarchart == InitBarchart /\ [][NextBarchart]_vars

NextTimeline == ConstructTimeline

SpecTimeline == InitTimeline /\ [][NextTimeline]_vars

\* a Timeline whose formatting methods are called on whole minutes
InitFormat ==
    /\ Blank
    /\ chart = "timeline"
    /\ container = [found |-> TRUE, w |-> N(200), h |-> N(125), children |-> <<>>]
    /\ args = <<>>

\* this.formatMinutes(minutes) (lines 1217-1230), as draw calls it; the
\* method keeps no state, so one call per run is explored
CallFormatMinutes ==
    /\ chart = "timeline"
    /\ call = NoCall
    /\ \E n \in 0..MaxMinutes :
          call' = [fn |-> "formatMinutes", minutes |-> n, text |-> FormatMinutes(N(n))]
    /\ UNCHANGED <<chart, pc, args, cfg, data, container, svg, tooltip, drag, listeners,
                   console, thrown, renders>>

\* this.formatMinutes2(minutes) (lines 1238-1253), as draw and the hover
\* callback call it
CallFormatMinutes2 ==
    /\ chart = "timeline"
    /\ call = NoCall
    /\ \E n \in 0..MaxMinutes :
          call' = [fn |-> "formatMinutes2", minutes |-> n, text |-> FormatMinutes2(N(n))]
    /\ UNCHANGED <<chart, pc, args, cfg, data, container, svg, tooltip, drag, listeners,
                   console, thrown, renders>>

NextFormat ==
    \/ CallFormatMinutes
    \/ CallFormatMinutes2

SpecFormat == InitFormat /\ [][NextFormat]_vars

\* a page on which the path functions are called
InitPaths ==
    /\ Blank
    /\ chart = "bar"
    /\ container = [found |-> TRUE, w |-> N(200), h |-> N(125), children |-> <<>>]
    /\ args = <<>>

\* createVerticalBar(x, y, radiusX, radiusY, heightDelta, heightOld, heightMax)
\* (lines 218-254); the function keeps no state, so one call per run is explored
CallCreateVerticalBar ==
    /\ chart = "bar"
    /\ call = NoCall
    /\ \E r \in 1..MaxHalves, delta \in 0..MaxHalves, old \in 0..MaxHalves,
          max \in 0..MaxHalves :
          call' = [fn |-> "createVerticalBar", radius |-> Q(r, 2), delta |-> Q(delta, 2),
                   old |-> Q(old, 2), max |-> Q(max, 2),
                   path |-> CreateVerticalBar(Q(r, 2), Q(delta, 2), Q(old, 2), Q(max, 2))]
    /\ UNCHANGED <<chart, pc, args, cfg, data, container, svg, tooltip, drag, listeners,
                   console, thrown, renders>>

\* createHorizontalBar(x, y, radiusX, radiusY, widthDelta, widthOld, widthMax)
\* (lines 266-302)
CallCreateHorizontalBar ==
    /\ chart = "bar"
    /\ call = NoCall
    /\ \E r \in 1..MaxHalves, delta \in 0..MaxHalves, old \in 0..MaxHalves,
          max \in 0..MaxHalves :
          call' = [fn |-> "createHorizontalBar", radius |-> Q(r, 2), delta |-> Q(delta, 2),
                   old |-> Q(old, 2), max |-> Q(max, 2),
                   path |-> CreateHorizontalBar(Q(r, 2), Q(delta, 2), Q(old, 2), Q(max, 2))]
    /\ UNCHANGED <<chart, pc, args, cfg, data, container, svg, tooltip, drag, listeners,
                   console, thrown, renders>>

NextPaths ==
    \/ CallCreateVerticalBar
    \/ CallCreateHorizontalBar

SpecPaths == InitPaths /\ [][NextPaths]_vars

-----------------------------------------------------------------------------
(* Properties *)

RECURSIVE SumDeltas(_)
\* the sum of the extents of drawn portions
SumDeltas(segments) ==
    IF segments = <<>> THEN N(0)
    ELSE Add(Head(segments).delta, SumDeltas(Tail(segments)))

RECURSIVE FirstSeen(_, _)
\* the distinct titles of a sequence in the order of their first occurrence
FirstSeen(titles, seen) ==
    IF titles = <<>> THEN seen
    ELSE FirstSeen(Tail(titles),
                   IF \E k \in 1..Len(seen) : seen[k] = Head(titles) THEN seen
                   ELSE Append(seen, Head(titles)))

\* N for the N-th distinct title, counted from 0
Rank(seen, title) == (CHOOSE k \in 1..Len(seen) : seen[k] = title) - 1

\* palette[N mod palette.length]
PaletteAt(palette, n) == palette[(n % Len(palette)) + 1]

\* the titles of a sequence of datasets or intervals, a missing one as ""
Titles(items) == [j \in 1..Len(items) |-> OrEmpty(items[j].title)]

RECURSIVE BarTitles(_)
\* the titles of a bar chart's data in bar order, then dataset order
BarTitles(d) ==
    IF d = <<>> THEN <<>> ELSE Titles(Head(d).datasets) \o BarTitles(Tail(d))

\* the palette of a track
TrackPalette(t) == IF t.colors = <<>> THEN DefaultColors ELSE t.colors[1]

RECURSIVE TitleTotal(_, _)
\* the sum of length over the intervals of a sequence that carry a title
TitleTotal(values, title) ==
    IF values = <<>> THEN N(0)
    ELSE Add(IF OrEmpty(Head(values).title) = title THEN Head(values).length ELSE N(0),
             TitleTotal(Tail(values), title))

RECURSIVE ValueSum(_)
\* the value sum of a bar, a missing value counting as 0
ValueSum(datasets) ==
    IF datasets = <<>> THEN N(0)
    ELSE Add(OrZero(Head(datasets).value), ValueSum(Tail(datasets)))

RECURSIVE LargestSum(_)
\* the largest value sum over the bars
LargestSum(d) ==
    IF d = <<>> THEN N(0) ELSE MathMax(ValueSum(Head(d).datasets), LargestSum(Tail(d)))

\* the data with every missing value written as 0
ZeroFilled(d) ==
    [i \in 1..Len(d) |->
        [d[i] EXCEPT !.datasets =
            [j \in 1..Len(d[i].datasets) |->
                [d[i].datasets[j] EXCEPT !.value = IF @ = <<>> THEN <<N(0)>> ELSE @]]]]

\* a bar chart whose construction has drawn its data
BarDrawn == chart = "bar" /\ pc = "ready" /\ svg /= NoTree

\* a timeline whose construction has drawn its data
TimelineDrawn == chart = "timeline" /\ pc = "ready" /\ svg /= NoTree

\* C1: in a bar-chart render, for every bar and every max, the extents of the
\* portions drawn in the bar sum to at most the capsule's full extent.
C1_DrawnWithinCapsule ==
    BarDrawn =>
        \A i \in 1..Len(svg.tree.bars) :
            Le(SumDeltas(svg.tree.bars[i].segments), svg.tree.capsule)

\* C2: with colours fixed to titles, within one render every portion of the
\* N-th distinct title (N from 0; over all bars in bar then dataset order for
\* the bar chart, within one track for the timeline) has palette[N mod length].
C2_TitleColours ==
    /\ (BarDrawn /\ cfg.fixColorToTitle) =>
           \A i \in 1..Len(data) : \A j \in 1..Len(data[i].datasets) :
               svg.tree.bars[i].colors[j]
                   = PaletteAt(cfg.foregroundColors,
                               Rank(FirstSeen(BarTitles(data), <<>>),
                                    OrEmpty(data[i].datasets[j].title)))
    /\ TimelineDrawn =>
           \A i \in 1..Len(data.timelines) :
               \A j \in 1..Len(data.timelines[i].values) :
                   svg.tree.tracks[i].segments[j].color
                       = PaletteAt(TrackPalette(data.timelines[i]),
                                   Rank(FirstSeen(Titles(data.timelines[i].values), <<>>),
                                        OrEmpty(data.timelines[i].values[j].title)))

\* C3: in a timeline render, the total of a legend entry is the sum of length
\* over all intervals of the entry's track that carry the entry's title, inside
\* the visible range or not; the intervals of other tracks do not count.
C3_LegendTotals ==
    TimelineDrawn =>
        \A i \in 1..Len(svg.tree.tracks) :
            \A k \in 1..Len(svg.tree.tracks[i].legend) :
                svg.tree.tracks[i].legend[k].total
                    = TitleTotal(data.timelines[i].values,
                                 svg.tree.tracks[i].legend[k].key)

\* two tracks that share the title A, the first with two intervals of A and
\* with an interval that starts after the end of the scale
C3_Witness ==
    /\ TimelineDrawn
    /\ Len(svg.tree.tracks) = 2
    /\ \E k \in 1..Len(svg.tree.tracks[1].legend) :
          /\ svg.tree.tracks[1].legend[k].key = "A"
          /\ svg.tree.tracks[1].legend[k].total = N(60)
    /\ \E j \in 1..Len(svg.tree.tracks[1].segments) :
          Gt(svg.tree.tracks[1].segments[j].start, cfg.scale.to)
    /\ \E k \in 1..Len(svg.tree.tracks[2].legend) :
          /\ svg.tree.tracks[2].legend[k].key = "A"
          /\ svg.tree.tracks[2].legend[k].total = N(30)

\* the tree is the one a first render of the current data under the current
\* configuration in a container of the current size builds: every stack starts
\* at 0, the colours are counted from the palette's first, the legend starts at
\* 0 and its totals count the current intervals only
FirstRenderTree ==
    /\ (IF chart = "bar" THEN [svg.tree EXCEPT !.transform = <<>>] ELSE svg.tree)
           = Build(chart, cfg, data, container).out.svg
    /\ chart = "bar" =>
           \A i \in 1..Len(svg.tree.bars) :
               /\ svg.tree.bars[i].segments /= <<>> =>
                      svg.tree.bars[i].segments[1].old = N(0)
               /\ \A j \in 1..Len(data[i].datasets) :
                      svg.tree.bars[i].colors[j]
                          = PaletteAt(cfg.foregroundColors,
                                      IF cfg.fixColorToTitle
                                      THEN Rank(FirstSeen(BarTitles(data), <<>>),
                                                OrEmpty(data[i].datasets[j].title))
                                      ELSE j - 1)
    /\ chart = "timeline" =>
           /\ \A i \in 1..Len(svg.tree.tracks) :
                  /\ \A k \in 1..Len(svg.tree.tracks[i].legend) :
                         svg.tree.tracks[i].legend[k].total
                             = TitleTotal(data.timelines[i].values,
                                          svg.tree.tracks[i].legend[k].key)
                  /\ \A j \in 1..Len(svg.tree.tracks[i].segments) :
                         svg.tree.tracks[i].segments[j].color
                             = PaletteAt(TrackPalette(data.timelines[i]),
                                   Rank(FirstSeen(Titles(data.timelines[i].values), <<>>),
                                        svg.tree.tracks[i].segments[j].title))
           /\ \A i \in 1..Len(svg.tree.tracks) :
                  (/\ svg.tree.tracks[i].legend /= <<>>
                   /\ \A h \in 1..(i - 1) : svg.tree.tracks[h].legend = <<>>)
                      => svg.tree.tracks[i].legend[1].x = N(0)

\* the tree is not panned, no drag is under way and none is remembered, and no
\* tooltip is left
NothingCarried ==
    /\ chart = "bar" => svg.tree.transform = <<>>
    /\ drag = [startPos |-> <<>>, currentTranslate |-> N(0)]
    /\ tooltip = <<>>

\* C4: whatever setData calls, resizes, hovers and drags came before, the tree
\* of the last completed render is the one a first render of the same data,
\* configuration and container size builds, and a render leaves no colour,
\* stack offset, legend offset, legend total or pan translation of an earlier one.
C4_RenderIsPure ==
    /\ []((pc = "ready" /\ ~thrown) => FirstRenderTree)
    /\ [][renders' = renders + 1 => NothingCarried']_vars

\* a draggable bar chart drawn again after its construction, on other data,
\* that is panned and shows a tooltip while a further render can follow
C4_Witness ==
    /\ BarDrawn
    /\ renders = 2
    /\ renders < MaxRenders
    /\ data /= args[1].data
    /\ svg.tree.transform /= <<>>
    /\ drag.currentTranslate /= N(0)
    /\ tooltip /= <<>>

\* the children of a container that holds the current tree and nothing else
OnlyTree == <<[tag |-> "svg", id |-> svg.id]>>

\* the children of a container that holds the current tree and the tooltip
\* element created under it
TreeAndTooltip == <<[tag |-> "svg", id |-> svg.id], [tag |-> "div", id |-> svg.id]>>

\* C5: a render leaves the container with exactly the newly built tree and
\* the tooltip handle reset; until the next render the container holds that
\* tree and at most one tooltip element, however many hovers occur.
C5_OneTree ==
    [][/\ renders' = renders + 1 =>
              /\ svg'.id = renders'
              /\ container'.children = OnlyTree'
              /\ tooltip' = <<>>
       /\ svg' /= NoTree =>
              \/ tooltip' = <<>> /\ container'.children = OnlyTree'
              \/ tooltip' /= <<>> /\ container'.children = TreeAndTooltip']_vars

\* a tooltip shown and hidden on a tree that replaced an earlier one
C5_Witness ==
    /\ renders >= 2
    /\ tooltip /= <<>>
    /\ tooltip[1].visibility = "hidden"
    /\ Len(container.children) = 2

C7_MissingValueIsZero ==
    BarDrawn =>
        \A i \in 1..Len(svg.tree.bars) :
            /\ \A k \in 1..Len(svg.tree.bars[i].segments) :
                   data[i].datasets[svg.tree.bars[i].segments[k].j].value /= <<>>
            /\ svg.tree.bars[i].segments
                   = Build(chart, cfg, ZeroFilled(data), container).out.svg.bars[i].segments

\* C8: a bar or a track without a label is drawn with the label "": the render
\* completes and every bar or track of the data is in the tree.
C8_MissingLabelIsEmpty ==
    pc \notin {"new", "aborted"} =>
        /\ pc = "ready"
        /\ ~thrown
        /\ svg /= NoTree
        /\ Len(Rows) = Len(IF chart = "bar" THEN data ELSE data.timelines)
        /\ \A i \in 1..Len(Rows) :
               Rows[i].label
                   = OrEmpty((IF chart = "bar" THEN data ELSE data.timelines)[i].label)

\* the max the extents are scaled by: the explicit one, or the largest value sum
ScaleMax == IF cfg.max = <<>> THEN LargestSum(data) ELSE cfg.max[1]

\* C9: in a bar each drawn portion starts where the portions drawn before it
\* end and has extent capsule * value / max; with max 'relative' the bar with
\* the largest value sum fills the capsule exactly.
C9_ContiguousStack ==
    BarDrawn =>
        \A i \in 1..Len(svg.tree.bars) :
            /\ \A k \in 1..Len(svg.tree.bars[i].segments) :
                   /\ svg.tree.bars[i].segments[k].old
                          = SumDeltas(SubSeq(svg.tree.bars[i].segments, 1, k - 1))
                   /\ svg.tree.bars[i].segments[k].delta
                          = Div(Mul(svg.tree.capsule, svg.tree.bars[i].segments[k].value),
                                ScaleMax)
            /\ (/\ cfg.max = <<>>
                /\ Gt(LargestSum(data), N(0))
                /\ ValueSum(data[i].datasets) = LargestSum(data))
                   => SumDeltas(svg.tree.bars[i].segments) = svg.tree.capsule

\* the distinct titles of a track
TitleSet(t) == {OrEmpty(t.values[j].title) : j \in 1..Len(t.values)}

\* C10: with legends on, every track has exactly one legend entry per distinct
\* title, labelled "{title} - {formatMinutes(total)}" and of the colour of the
\* portions of that title in the track.
C10_LegendEntries ==
    (TimelineDrawn /\ cfg.legend) =>
        \A i \in 1..Len(svg.tree.tracks) :
            /\ {svg.tree.tracks[i].legend[k].key : k \in 1..Len(svg.tree.tracks[i].legend)}
                   = TitleSet(data.timelines[i])
            /\ Len(svg.tree.tracks[i].legend) = Cardinality(TitleSet(data.timelines[i]))
            /\ \A k \in 1..Len(svg.tree.tracks[i].legend) :
                   /\ svg.tree.tracks[i].legend[k].content
                          = svg.tree.tracks[i].legend[k].key \o " - "
                            \o FormatMinutes(TitleTotal(data.timelines[i].values,
                                                        svg.tree.tracks[i].legend[k].key))
                   /\ \A j \in 1..Len(svg.tree.tracks[i].segments) :
                          svg.tree.tracks[i].segments[j].title
                              = svg.tree.tracks[i].legend[k].key
                          => svg.tree.tracks[i].segments[j].color
                                 = svg.tree.tracks[i].legend[k].color

\* the decimal digits of a natural number
Digits(k) == ToString(k)

\* C11: for every whole n >= 0, formatMinutes(n) is "" when n = 0, "{h}h" when
\* n is a positive multiple of 60, "{m}m" when 0 < n < 60 and "{h}h {m}m"
\* otherwise, with h = floor(n / 60) and m = n mod 60.
C11_FormatMinutes ==
    call.fn = "formatMinutes" =>
        call.text = IF call.minutes = 0 THEN ""
                    ELSE IF call.minutes % 60 = 0 THEN Digits(call.minutes \div 60) \o "h"
                    ELSE IF call.minutes < 60 THEN Digits(call.minutes) \o "m"
                    ELSE Digits(call.minutes \div 60) \o "h "
                         \o Digits(call.minutes % 60) \o "m"

\* formatMinutes(125) has returned "2h 5m"
C11_Witness ==
    /\ call.fn = "formatMinutes"
    /\ call.minutes = 125
    /\ call.text = "2h 5m"

\* the two-digit decimal rendering of a number below 100
TwoDigits(k) == IF k < 10 THEN "0" \o Digits(k) ELSE Digits(k)

\* C12: for every minute of the day n in 0..1440, formatMinutes2(n) shows the
\* hour H = floor(n / 60) as H with "am" when H <= 12 and as H - 12 with "pm"
\* otherwise, alone when n mod 60 = 0 and else followed by ":" and the two
\* digits of n mod 60.
C12_FormatMinutes2 ==
    (call.fn = "formatMinutes2" /\ call.minutes <= 1440) =>
        call.text = Digits(IF call.minutes \div 60 > 12 THEN call.minutes \div 60 - 12
                           ELSE call.minutes \div 60)
                    \o (IF call.minutes % 60 = 0 THEN ""
                        ELSE ":" \o TwoDigits(call.minutes % 60))
                    \o (IF call.minutes \div 60 > 12 THEN " pm" ELSE " am")

\* the distance by which the drawn bars exceed the visible extent of the
\* drag axis
Overflow ==
    MathMax(N(0),
            Sub(Add(Add(IF cfg.scale.visible THEN N(30) ELSE N(0),
                        Div(svg.tree.barSpacing, N(2))),
                    GroupExtent(cfg, svg.tree)),
                svg.tree.realExtent))

\* C13: with dragging enabled, whatever pointer events were handled, the
\* translation of the data group lies between minus the overflow and zero; a
\* group that fits the visible extent is not translated
C13_PanWithinBounds ==
    (Draggable /\ svg.tree.transform /= <<>>) =>
        /\ Le(Neg(Overflow), svg.tree.transform[1])
        /\ Le(svg.tree.transform[1], N(0))
        /\ (Overflow = N(0) => svg.tree.transform[1] = N(0))

\* a pan that went all the way: the group is translated by minus the overflow,
\* and a later drag to the right has been started
C13_Witness ==
    /\ Draggable
    /\ svg.tree.transform /= <<>>
    /\ Lt(svg.tree.transform[1], N(0))
    /\ svg.tree.transform[1] = Neg(Overflow)
    /\ drag.currentTranslate = Neg(Overflow)
    /\ drag.startPos /= <<>>

\* the translation the group has after a move to pos during the active drag:
\* the translation the drag started from plus the pointer's delta, clamped
Dragged(pos) ==
    MathMax(MathMin(N(0), Add(drag.currentTranslate, Sub(pos, drag.startPos[1]))),
            Neg(Overflow))

\* C14: the drag is active from a pointer-down, at any coordinate including
\* 0, until the next pointer-up: a move during it translates the group by the
\* clamped pointer delta, and while no drag is active no step changes the
\* translation
C14_DragActiveUntilUp ==
    [][(Draggable /\ renders' = renders) =>
          /\ drag.startPos = <<>> => svg' = svg
          /\ (/\ drag.startPos /= <<>>
              /\ drag'.startPos = drag.startPos
              /\ <<svg, drag>>' /= <<svg, drag>>) =>
                 /\ drag' = drag
                 /\ \E pos \in PointerCoords :
                        svg'.tree.transform = <<Dragged(pos)>>]_vars

\* C15, as stated: every event handled by a drawn instance, a resize
\* notification or a pointer event, is one full re-render that replaces the
\* whole tree
C15_EveryEventRerenders ==
    [][(pc = "ready" /\ ~thrown') =>
          /\ renders' = renders + 1
          /\ svg'.id /= svg.id
          /\ container'.children = <<Element("svg", svg'.id)>>]_vars

\* C15, amended: a step is either a completed draw call, which replaces the
\* whole tree by a new one and drops the tooltip, or it leaves the tree and
\* all it draws in place, only the translation of the group changing; a
\* resize that changes the container's size is always followed by a draw call
\* (completed, or thrown before it changed the tree), and pointer events,
\* which change the tooltip or the drag, never re-render
C15_OnlyDrawCallsRerender ==
    [][pc = "ready" =>
          /\ renders' \in {renders, renders + 1}
          /\ renders' = renders + 1 =>
                 /\ svg'.id = renders'
                 /\ svg'.id /= svg.id
                 /\ container'.children = <<Element("svg", svg'.id)>>
                 /\ tooltip' = <<>>
          /\ renders' = renders =>
                 /\ svg'.id = svg.id
                 /\ IF chart = "bar"
                    THEN [svg'.tree EXCEPT !.transform = svg.tree.transform] = svg.tree
                    ELSE svg'.tree = svg.tree
          /\ (container'.w /= container.w \/ container'.h /= container.h) =>
                 (renders' = renders + 1 \/ (thrown' /\ svg' = svg))
          /\ (tooltip' /= tooltip /\ tooltip' /= <<>>) => renders' = renders
          /\ (drag' /= drag /\ drag'.startPos /= <<>>) => renders' = renders]_vars

\* the second tree, drawn on a resize notification, with a tooltip shown by a
\* pointer event that did not re-render
C15_Witness ==
    /\ pc = "ready"
    /\ renders = 2
    /\ svg.id = 2
    /\ container.w = N(400)
    /\ tooltip /= <<>>
    /\ tooltip[1].visibility = "visible"
    /\ tooltip[1].id = svg.id

\* the text the default tooltip of a bar chart shows for a portion: its value,
\* then a colon and its title unless the title is empty
TooltipText(seg) ==
    [value |-> seg.value, suffix |-> IF seg.title = "" THEN "" ELSE ": " \o seg.title]

\* the tooltip is the last child of the container and belongs to the tree
TooltipAttached ==
    /\ tooltip[1].id = svg.id
    /\ container.children = <<Element("svg", svg.id), Element("div", svg.id)>>

\* C16: with hover enabled, a pointer-enter on a drawn portion leaves the
\* tooltip visible with the text of the callback on (title, value) of a hovered
\* portion of the tree, the title following the value only when it is not
\* empty, and a later pointer-leave hides it, its text staying; with hover
\* disabled no portion can be entered and no tooltip element is ever created
C16_Tooltip ==
    /\ [](pc = "ready" =>
             /\ ~cfg.hover.visible =>
                    (tooltip = <<>> /\ Hoverable = {} /\ Len(container.children) <= 1)
             /\ tooltip /= <<>> =>
                    (TooltipAttached /\ tooltip[1].visibility \in {"visible", "hidden"}))
    /\ [][(pc = "ready" /\ tooltip' /= tooltip /\ tooltip' /= <<>>) =>
              IF tooltip'[1].visibility = "visible"
              THEN /\ Hoverable /= {}
                   /\ chart = "bar" =>
                          \E p \in Hoverable :
                             tooltip'[1].html = <<TooltipText(Rows[p[1]].segments[p[2]])>>
              ELSE /\ tooltip /= <<>>
                   /\ tooltip[1].visibility = "visible"
                   /\ tooltip'[1].html = tooltip[1].html]_vars

\* the pointer entered a portion without title, whose tooltip showed the value
\* alone, and left it
C16_Witness ==
    /\ chart = "bar"
    /\ pc = "ready"
    /\ tooltip /= <<>>
    /\ tooltip[1].visibility = "hidden"
    /\ tooltip[1].html = <<[value |-> N(1), suffix |-> ""]>>

\* the fields of an instance constructed on no options at all
DefaultFields ==
    IF chart = "bar" THEN BarchartFields(<<>>).cfg ELSE TimelineFields(<<>>).cfg

\* C17: the params argument is optional: a chart constructed on an existing
\* container without it does not throw and is drawn with the defaults
C17_ParamsOptional ==
    (pc /= "new" /\ container.found /\ args = <<>>) =>
        /\ ~thrown
        /\ pc = "ready"
        /\ svg /= NoTree
        /\ cfg = DefaultFields

\* whether the caller's params give a value to key, and to key.sub
Supplied(key) == key \in DOMAIN args[1]

SuppliedIn(key, sub) == Supplied(key) /\ sub \in DOMAIN args[1][key]

\* the colours of the caller's palette
CallerPalette ==
    {args[1].colors.foreground[k] : k \in 1..Len(args[1].colors.foreground)}

\* C18: filling in the defaults only adds what the caller did not supply:
\* every supplied option keeps its value, and a supplied palette keeps exactly
\* its own entries and length, so that every portion drawn (titles that name
\* an inherited property aside) has a colour of the caller's palette
C18_DefaultsOnlyFill ==
    BarDrawn =>
        /\ Supplied("max") => cfg.max = args[1].max
        /\ Supplied("orientation") => cfg.orientation = args[1].orientation
        /\ SuppliedIn("hover", "visible") => cfg.hover.visible = args[1].hover.visible
        /\ SuppliedIn("scale", "visible") => cfg.scale.visible = args[1].scale.visible
        /\ SuppliedIn("colors", "fixToTitle") =>
               cfg.fixColorToTitle = args[1].colors.fixToTitle
        /\ SuppliedIn("colors", "foreground") =>
               /\ cfg.foregroundColors = args[1].colors.foreground
               /\ \A i \in 1..Len(svg.tree.bars) :
                      \A k \in 1..Len(svg.tree.bars[i].segments) :
                         \/ svg.tree.bars[i].segments[k].title \in ProtoKeys
                         \/ svg.tree.bars[i].segments[k].color \in CallerPalette

\* whether the caller asked for the container to be sized to the bars, which
\* takes a fixed distance
AdjustAsked == Supplied("adjustSize") /\ args[1].adjustSize /\ cfg.distance /= <<>>

\* the size along the layout axis that holds every bar with its distance,
\* between the two paddings before and after
AdjustedSize(before, after) ==
    Add(Add(Mul(N(Len(data)), Add(cfg.barSize, cfg.distance[1])), before), after)

\* the size of the container, as one of Sizes
ContainerSize == [w |-> container.w, h |-> container.h]

\* C19: with a fixed distance and adjustSize, a render sets the container's
\* size along the layout axis (the width of a vertical chart, the height of a
\* horizontal one) to barCount * (barSize + distance) plus the two paddings of
\* that axis, the other axis keeping its size; with a variable distance, or
\* without adjustSize, the container keeps its size
C19_AdjustSize ==
    BarDrawn =>
        IF ~AdjustAsked THEN ContainerSize \in Sizes
        ELSE IF cfg.orientation /= "horizontal"
        THEN /\ container.w = AdjustedSize(cfg.padding.left, cfg.padding.right)
             /\ \E sz \in Sizes : container.h = sz.h
        ELSE /\ container.h = AdjustedSize(cfg.padding.top, cfg.padding.bottom)
             /\ \E sz \in Sizes : container.w = sz.w

\* the spacing that spreads the bars over the visible extent, behind the
\* allowance of the scale
SpreadSpacing ==
    Sub(Div(Sub(svg.tree.realExtent, IF cfg.scale.visible THEN N(30) ELSE N(0)),
            N(Len(data))),
        cfg.barSize)

\* the larger of two numbers, NaN if either is
Larger(a, b) == IF IsNaN(a) \/ IsNaN(b) THEN NaN ELSE IF Lt(a, b) THEN b ELSE a

\* C20, as stated: the spacing between bars is the larger of minDistance and
\* the spread spacing when the distance is variable, and the configured
\* distance otherwise, whatever minDistance is
C20_SpacingAsStated ==
    BarDrawn =>
        svg.tree.barSpacing =
            IF cfg.distance = <<>> THEN Larger(cfg.minDistance, SpreadSpacing)
            ELSE cfg.distance[1]

\* C20, amended: the spacing between bars is the larger of minDistance and the
\* spread spacing when the distance is variable, and the larger of minDistance
\* and the configured distance otherwise
C20_SpacingAtLeastMinimum ==
    BarDrawn =>
        svg.tree.barSpacing =
            Larger(cfg.minDistance,
                   IF cfg.distance = <<>> THEN SpreadSpacing ELSE cfg.distance[1])

\* a chart whose fixed distance is below minDistance, drawn at minDistance
C20_Witness ==
    /\ BarDrawn
    /\ Len(data) = 2
    /\ cfg.distance /= <<>>
    /\ Lt(cfg.distance[1], cfg.minDistance)
    /\ svg.tree.barSpacing = cfg.minDistance

\* the whole part of a / b for finite a >= 0 and b > 0
WholePart(a, b) == (a[1] * b[2]) \div (a[2] * b[1])

\* the gridlines a scale of the given interval has up to max: one per multiple
\* of the interval, at the extent a stack of that value reaches
Gridlines(capsule, max, interval) ==
    {[label |-> Mul(N(k), interval),
      pos   |-> Div(Mul(capsule, Mul(N(k), interval)), max)] :
        k \in 1..WholePart(max, interval)}

\* the gridlines of the current tree
DrawnGridlines == {svg.tree.scale[i] : i \in 1..Len(svg.tree.scale)}

\* C21: when the scale is visible (and max is a positive number), the
\* gridlines drawn, as pairs of label and position, are exactly one per
\* multiple k * interval of the interval with 1 <= k <= floor(max / interval),
\* each at capsule * k * interval / max
C21_ScaleGridlines ==
    (BarDrawn /\ cfg.scale.visible /\ IsFinite(svg.tree.max) /\ Gt(svg.tree.max, N(0))) =>
        DrawnGridlines = Gridlines(svg.tree.capsule, svg.tree.max, cfg.scale.interval)

\* the time of the k-th step of the axis
StepTime(k) ==
    Add(Add(cfg.scale.from, cfg.scale.intervalStart), Mul(N(k), cfg.scale.interval))

\* the labels an axis from scale.from to scale.to has: one per step whose time
\* lies in the range, at that time's fraction of the data width
AxisOfScale ==
    {[time |-> StepTime(k),
      x    |-> Add(svg.tree.widthLeft,
                   Mul(svg.tree.lineWidth,
                       Div(Sub(StepTime(k), cfg.scale.from),
                           Sub(cfg.scale.to, cfg.scale.from))))] :
        k \in {n \in 0..WholePart(Sub(cfg.scale.to, cfg.scale.from), cfg.scale.interval) :
                  Le(cfg.scale.from, StepTime(n)) /\ Le(StepTime(n), cfg.scale.to)}}

\* the labels of the current tree's axis header
DrawnAxis == {svg.tree.header[i] : i \in 1..Len(svg.tree.header)}

\* C22: for a scale with from < to and interval > 0 (intervalStart >= 0), the
\* axis header labels exactly the times from + intervalStart + k * interval
\* within [from, to], each at the fraction (t - from) / (to - from) of the
\* data width, whether or not to - from is a multiple of the interval
C22_AxisLabels ==
    (/\ TimelineDrawn
     /\ Lt(cfg.scale.from, cfg.scale.to)
     /\ Gt(cfg.scale.interval, N(0))
     /\ Le(N(0), cfg.scale.intervalStart)) =>
        DrawnAxis = AxisOfScale

\* the intervals drawn in the current tree, as <<track, position>>
DrawnIntervals ==
    {p \in (1..Len(svg.tree.tracks)) \X (1..MaxIntervals) :
        p[2] <= Len(svg.tree.tracks[p[1]].segments)}

\* C23: every interval of the timeline whose width is below twice the cap
\* radius is drawn as a lens, and every interval drawn as a pill has a
\* straight section of length >= 0 between its caps
C23_LensFallback ==
    TimelineDrawn =>
        \A p \in DrawnIntervals :
           /\ Lt(svg.tree.tracks[p[1]].segments[p[2]].width, Mul(N(2), svg.tree.radius)) =>
                  svg.tree.tracks[p[1]].segments[p[2]].shape = "lens"
           /\ svg.tree.tracks[p[1]].segments[p[2]].shape = "pill" =>
                  /\ svg.tree.tracks[p[1]].segments[p[2]].straight /= <<>>
                  /\ Le(N(0), svg.tree.tracks[p[1]].segments[p[2]].straight[1])

\* a track with a lens of positive width next to a pill
C23_Witness ==
    /\ TimelineDrawn
    /\ \E p \in DrawnIntervals : \E q \in DrawnIntervals :
          /\ p[1] = q[1]
          /\ svg.tree.tracks[p[1]].segments[p[2]].shape = "lens"
          /\ Gt(svg.tree.tracks[p[1]].segments[p[2]].width, N(0))
          /\ svg.tree.tracks[q[1]].segments[q[2]].shape = "pill"

\* the datasets of a bar that have another value than 0
NonZero(datasets) == SelectSeq(datasets, LAMBDA ds : ds.value /= <<N(0)>>)

\* the data without the datasets of value 0
WithoutZeros(d) ==
    [i \in 1..Len(d) |-> [label |-> d[i].label, datasets |-> NonZero(d[i].datasets)]]

\* where the portions of each bar are placed: offset and extent, in order
Placement(bars) ==
    [i \in 1..Len(bars) |->
        [k \in 1..Len(bars[i].segments) |->
            <<bars[i].segments[k].old, bars[i].segments[k].delta>>]]

\* C24: every portion the bar chart draws has an extent > 0; a dataset of
\* value 0 is not drawn and does not move the running offset: the portions
\* are placed exactly as in a render of the data without the datasets of
\* value 0
C24_ZeroNotDrawn ==
    BarDrawn =>
        /\ \A i \in 1..Len(svg.tree.bars) :
              \A k \in 1..Len(svg.tree.bars[i].segments) :
                 /\ Gt(svg.tree.bars[i].segments[k].delta, N(0))
                 /\ svg.tree.bars[i].segments[k].value /= N(0)
        /\ Placement(svg.tree.bars) =
              Placement(Build("bar", cfg, WithoutZeros(data), container).out.svg.bars)

\* a bar whose first dataset has value 0: only its second dataset is drawn,
\* from the base of the capsule
C24_Witness ==
    /\ BarDrawn
    /\ Len(data) >= 1
    /\ Len(data[1].datasets) = 2
    /\ data[1].datasets[1].value = <<N(0)>>
    /\ Len(svg.tree.bars[1].segments) = 1
    /\ svg.tree.bars[1].segments[1].j = 2
    /\ svg.tree.bars[1].segments[1].old = N(0)

\* the calls of the arc functions that drew a path
ArcCalls(path) ==
    {path.startArc[n] : n \in 1..Len(path.startArc)} \cup
    {path.endArc[n] : n \in 1..Len(path.endArc)}

\* the documented precondition of an arc function, and its consequence for
\* the arguments of the arcsine or arccosine
ArcCallInRange(a, radius) ==
    /\ Le(N(0), a.old)
    /\ Le(a.delta, Sub(radius, a.old))
    /\ Le(N(-1), a.argOld) /\ Le(a.argOld, N(1))
    /\ Le(N(-1), a.argNew) /\ Le(a.argNew, N(1))

\* C25: every call of an arc function the bar chart makes while drawing has
\* 0 <= old and delta <= radius - old, so the arguments of the arcsine or
\* arccosine lie in [-1, 1], whatever the data and the max
C25_ArcsInRange ==
    BarDrawn =>
        \A i \in 1..Len(svg.tree.bars) :
           \A k \in 1..Len(svg.tree.bars[i].segments) :
              \A a \in ArcCalls(svg.tree.bars[i].segments[k].path) :
                 ArcCallInRange(a, svg.tree.radius)

\* a call of a path function on a capsule that holds its two caps and a fill
\* that lies within it
FillWithinCapsule ==
    /\ call.fn \in {"createVerticalBar", "createHorizontalBar"}
    /\ Le(Mul(N(2), call.radius), call.max)
    /\ Le(N(0), call.old)
    /\ Gt(call.delta, N(0))
    /\ Le(Add(call.old, call.delta), call.max)

\* where the end cap of the capsule begins
EndCapFrom == Sub(call.max, call.radius)

\* the extent of the fill inside the start cap: [old, min(old + delta, radius)]
StartCapExtent ==
    IF Lt(call.old, call.radius)
    THEN Sub(MathMin(Add(call.old, call.delta), call.radius), call.old)
    ELSE N(0)

\* the extent of the fill inside the end cap: [max(old, max - radius), old + delta]
EndCapExtent ==
    IF Gt(Add(call.old, call.delta), EndCapFrom)
    THEN Sub(Add(call.old, call.delta), MathMax(call.old, EndCapFrom))
    ELSE N(0)

\* the extent between the two caps
MiddleExtent == Sub(Sub(call.delta, StartCapExtent), EndCapExtent)

\* C26: on a capsule with max >= 2 * radius and a fill with old >= 0,
\* delta > 0 and old + delta <= max, the path has a start-cap part covering
\* [old, min(old + delta, radius)], an end-cap part covering
\* [max(old, max - radius), old + delta] and the rest as its straight middle;
\* the three extents are >= 0 and sum to delta, and a part is in the path
\* exactly when its extent is not zero
C26_ThreeParts ==
    FillWithinCapsule =>
        /\ Le(N(0), StartCapExtent) /\ Le(N(0), MiddleExtent) /\ Le(N(0), EndCapExtent)
        /\ Add(Add(call.path.startArcExtent, call.path.middleExtent),
               call.path.endArcExtent) = call.delta
        /\ call.path.startArcExtent = StartCapExtent
        /\ call.path.middleExtent = MiddleExtent
        /\ call.path.endArcExtent = EndCapExtent
        /\ (call.path.startArc /= <<>>) = Gt(StartCapExtent, N(0))
        /\ (call.path.middle /= <<>>) = Gt(MiddleExtent, N(0))
        /\ (call.path.endArc /= <<>>) = Gt(EndCapExtent, N(0))
        /\ call.path.startArc /= <<>> =>
               /\ call.path.startArc[1].old = call.old
               /\ call.path.startArc[1].delta = StartCapExtent
        /\ call.path.middle /= <<>> =>
               call.path.middle = <<Add(call.old, StartCapExtent), MiddleExtent>>
        /\ call.path.endArc /= <<>> =>
               /\ call.path.endArc[1].old = Sub(MathMax(call.old, EndCapFrom), EndCapFrom)
               /\ call.path.endArc[1].delta = EndCapExtent

\* a fill that runs from inside the start cap into the end cap: the path has
\* all three parts
C26_Witness ==
    /\ FillWithinCapsule
    /\ call.fn = "createVerticalBar"
    /\ call.path.startArc /= <<>>
    /\ call.path.middle /= <<>>
    /\ call.path.endArc /= <<>>
    /\ Gt(call.old, N(0))
    /\ Lt(Add(call.old, call.delta), call.max)

\* the titles of the intervals of a track before its j-th
EarlierTitles(t, j) == {OrEmpty(t.values[k].title) : k \in 1..(j - 1)}

\* the legend entries of the i-th track that carry a title
EntriesOf(i, title) ==
    {k \in 1..Len(svg.tree.tracks[i].legend) : svg.tree.tracks[i].legend[k].key = title}

\* C27: a title counts as seen only if an interval of the same track carried
\* it before: whatever the title is, the first interval of a track with that
\* title gets the palette colour at the number of distinct titles before it,
\* modulo the palette's length, and opens the title's total, which the legend
\* shows
C27_FirstOccurrence ==
    TimelineDrawn =>
        \A i \in 1..Len(data.timelines) : \A j \in 1..Len(data.timelines[i].values) :
           OrEmpty(data.timelines[i].values[j].title) \notin
                EarlierTitles(data.timelines[i], j) =>
              /\ svg.tree.tracks[i].segments[j].color =
                     PaletteAt(TrackPalette(data.timelines[i]),
                               Cardinality(EarlierTitles(data.timelines[i], j)))
              /\ cfg.legend =>
                     /\ EntriesOf(i, OrEmpty(data.timelines[i].values[j].title)) /= {}
                     /\ \A k \in EntriesOf(i, OrEmpty(data.timelines[i].values[j].title)) :
                            svg.tree.tracks[i].legend[k].total =
                                TitleTotal(data.timelines[i].values,
                                           OrEmpty(data.timelines[i].values[j].title))

\* the translation the data group has
Translation == IF svg.tree.transform = <<>> THEN N(0) ELSE svg.tree.transform[1]

\* C28: successive drags accumulate: the translation a drag starts from is
\* the one the group has at the pointer-down that follows a pointer-up,
\* whether or not the pointer moved in between, and a move during the drag
\* (started at another coordinate than 0) sets the translation to the clamped
\* sum of that start translation and the pointer's delta
C28_DragsAccumulate ==
    [][(Draggable /\ renders' = renders) =>
          /\ (drag.startPos = <<>> /\ drag'.startPos /= <<>>) =>
                 drag'.currentTranslate = Translation
          /\ (drag.startPos /= <<>> /\ drag.startPos[1] /= N(0) /\ svg' /= svg) =>
                 \E pos \in PointerCoords : svg'.tree.transform = <<Dragged(pos)>>]_vars

\* C29: renders do not add listeners: a draggable bar chart has, after any
\* number of setData calls and resize notifications, at most one pointer-up
\* listener on the document and the one resize subscription of its
\* construction
C29_ListenersDoNotGrow ==
    (Draggable /\ renders >= 1) =>
        /\ listeners.mouseup <= 1
        /\ listeners.resize = 1

\* C30: with from < to and lengths >= 0, every interval the timeline draws
\* lies within the data width of its track: its left edge is >= 0 and its
\* right edge is <= the data width, also when the interval begins before
\* scale.from or ends after scale.to
C30_IntervalsWithinTrack ==
    (TimelineDrawn /\ Lt(cfg.scale.from, cfg.scale.to)) =>
        \A p \in DrawnIntervals :
           /\ Le(N(0), svg.tree.tracks[p[1]].segments[p[2]].left)
           /\ Le(Add(svg.tree.tracks[p[1]].segments[p[2]].left,
                     svg.tree.tracks[p[1]].segments[p[2]].width),
                 svg.tree.lineWidth)

====
